---- MODULE Spec2Model ----
(***************************************************************************)
(* A model of algotrade4j_py/client.py: the MarketDataClient constructor   *)
(* and its get_candles method, with the HTTP server as the environment.    *)
(***************************************************************************)
EXTENDS Integers, Sequences, FiniteSets, TLC

\* ------------------------------------------------------------------ bounds

\* get_candles calls explored per client
MaxCalls == 2
\* candle objects in one JSON response body
MaxCandles == 2

\* ---------------------------------------------------------- Python values

\* An optional Python value: None is the empty set, a value x is {x}.
None == {}
Some(x) == {x}
Val(o) == CHOOSE x \in o : TRUE

\* Python truthiness of an optional string: None and "" are falsy.
Truthy(o) == o # None /\ Val(o) # ""

\* Python's `a or b` on optional strings.
PyOr(a, b) == IF Truthy(a) THEN a ELSE b

\* Whether token t is one of the pieces of the formatted message m.
Contains(m, t) == \E i \in 1..Len(m) : m[i] = t

\* str(list of str), e.g. ['OANDA', 'MT4'], as the pieces it is made of.
RECURSIVE ListItems(_)
ListItems(l) ==
    IF Len(l) = 0 THEN <<>>
    ELSE IF Len(l) = 1 THEN <<l[1]>>
    ELSE <<l[1], "', '">> \o ListItems(Tail(l))

ListRepr(l) == IF Len(l) = 0 THEN <<"[]">> ELSE <<"['">> \o ListItems(l) \o <<"']">>

\* Whether x is an element of the Python list l (`x in l`).
InList(x, l) == \E i \in 1..Len(l) : l[i] = x

\* ------------------------------------------------------------ calendar time

\* A calendar timestamp (pandas.Timestamp) and the epoch-based constructors.
SecondsPerDay == 86400

\* Days since 1970-01-01 to the proleptic Gregorian civil date.
CivilFromDays(days) ==
    LET z    == days + 719468
        era  == z \div 146097
        doe  == z - era * 146097
        yoe  == (doe - doe \div 1460 + doe \div 36524 - doe \div 146096) \div 365
        doy  == doe - (365 * yoe + yoe \div 4 - yoe \div 100)
        mp   == (5 * doy + 2) \div 153
        d    == doy - (153 * mp + 2) \div 5 + 1
        m    == IF mp < 10 THEN mp + 3 ELSE mp - 9
        y    == yoe + era * 400 + (IF m <= 2 THEN 1 ELSE 0)
    IN  [year |-> y, month |-> m, day |-> d]

\* The timestamp `sec` seconds and `nano` nanoseconds after the epoch.
Timestamp(sec, nano) ==
    LET date == CivilFromDays(sec \div SecondsPerDay)
        rem  == sec % SecondsPerDay
    IN  [year |-> date.year, month |-> date.month, day |-> date.day,
         hour |-> rem \div 3600, minute |-> (rem % 3600) \div 60,
         second |-> rem % 60, nanosecond |-> nano]

\* pd.to_datetime(x, unit="s"): x counts seconds.
to_datetime(x) == Timestamp(x, 0)

\* Zero-padded decimal of n to `width` digits.
RECURSIVE Pad(_, _)
Pad(s, width) == IF Len(s) >= width THEN s ELSE Pad("0" \o s, width)

Digits(n, width) == Pad(ToString(n), width)

\* Timestamp.isoformat() of a UTC-aware timestamp.
isoformat(t) ==
    Digits(t.year, 4) \o "-" \o Digits(t.month, 2) \o "-" \o Digits(t.day, 2)
    \o "T" \o Digits(t.hour, 2) \o ":" \o Digits(t.minute, 2) \o ":"
    \o Digits(t.second, 2)
    \o (IF t.nanosecond = 0 THEN ""
        ELSE "." \o Digits(t.nanosecond \div 1000, 6))
    \o "+00:00"

\* pd.Timestamp.now(tz="UTC") for a clock reading of [sec, micro].
TimestampNow(clock) == Timestamp(clock.sec, clock.micro * 1000)

\* ------------------------------------------------------- class attributes

HTTP_OK == 200

DefaultApiUrl == "https://api.algotrade4j.trade/api/v1/marketdata/candles"

ClassBrokers == <<"OANDA">>
ClassInstruments == <<"NAS100USD", "EURUSD", "GBPUSD">>
ClassPeriods == <<"M1", "M5", "M15", "M30", "H1", "H4", "D">>

\* The limit the docstring of get_candles documents as the default.
DocumentedDefaultLimit == 10000

\* ------------------------------------------------------------------ inputs

\* Explicit api_key arguments and values of os.getenv("MARKETDATA_API_KEY").
KeyArgs == {None, Some(""), Some("key-from-argument")}
EnvValues == {None, Some(""), Some("key-from-environment")}
UrlArgs == {DefaultApiUrl, "http://localhost:8080/candles"}

BrokerArgs == {"OANDA", "MT4"}
InstrumentArgs == {"EURUSD", "XAUUSD"}
PeriodArgs == {"H1", "W1"}
FromArgs == {None, Some("2020-10-01T00:00:00Z")}

\* A parameter at the call site: left out, or given with a value.
Omitted == [given |-> FALSE, v |-> None]
Given(o) == [given |-> TRUE, v |-> o]

LimitArgs == {Omitted} \cup {Given(o) : o \in {None, Some(-5), Some(0), Some(100)}}
ToArgs == {Omitted, Given(Some("2024-10-10T00:00:00Z"))}

\* The call sites explored. to_date is read only after every check has
\* passed, so it is varied on the calls whose other arguments are acceptable.
CallSites ==
    {cs \in [instrument : InstrumentArgs, broker : BrokerArgs,
             from_date : FromArgs, period : PeriodArgs, limit : LimitArgs,
             to_date : ToArgs] :
        cs.to_date.given =>
            /\ cs.broker = "OANDA" /\ cs.instrument = "EURUSD"
            /\ cs.period = "H1" /\ cs.from_date # None
            /\ cs.limit = Given(Some(100))}

\* Readings of the system clock.
Clocks == {[sec |-> 1728561600, micro |-> 0], [sec |-> 1728595921, micro |-> 250000]}

\* JSON candle objects: a sequence of <<name, value>> members in document order.
CandleFields == <<"openTime", "open", "high", "low", "close", "volume">>

FieldOrders ==
    {CandleFields, <<"volume", "close", "openTime", "low", "high", "open">>}

CandleValues ==
    {[openTime |-> 1700000000, open |-> 10, high |-> 12, low |-> 9,
      close |-> 11, volume |-> 1000],
     [openTime |-> 1699996400, open |-> 21, high |-> 25, low |-> 20,
      close |-> 24, volume |-> 500]}

CandleObject(order, vals) == [i \in 1..Len(order) |-> <<order[i], vals[order[i]]>>]

\* Every candle in the canonical member order, and one of them in each other.
CandleObjects ==
    {CandleObject(CandleFields, v) : v \in CandleValues}
    \cup {CandleObject(o, CHOOSE v \in CandleValues : v.volume = 1000) :
            o \in FieldOrders}

Bodies == UNION {[1..n -> CandleObjects] : n \in 0..MaxCandles}

\* Non-200 answers: <<status code, body text>>.
ErrorAnswers ==
    {<<204, "">>, <<403, "forbidden">>, <<500, "Internal Server Error">>}

\* What the server may answer. A 200 carries a JSON array (read by json());
\* any other status carries a body text (read by text).
Responses ==
    {[status_code |-> HTTP_OK, text |-> "", json |-> b] : b \in Bodies}
    \cup {[status_code |-> e[1], text |-> e[2], json |-> <<>>] :
            e \in ErrorAnswers}

\* Stand-ins for the clock and the server on a call that uses neither.
IdleClock == CHOOSE c \in Clocks : TRUE
IdleResponse == CHOOSE r \in Responses : r.status_code # HTTP_OK

\* ------------------------------------------------------------------- state

VARIABLES
    environ,                \* os.environ["MARKETDATA_API_KEY"], None when unset
    phase,                  \* "new", "ready" (constructed) or "failed"
    init_args,              \* the arguments __init__ was called with
    init_result,            \* how __init__ ended
    api_key,                \* self.api_key
    api_url,                \* self.api_url, None until assigned
    SUPPORTED_BROKERS,      \* class attribute
    SUPPORTED_INSTRUMENTS,  \* class attribute
    SUPPORTED_PERIODS,      \* class attribute
    net_calls,              \* requests.get calls issued so far
    n_calls,                \* get_candles calls made so far
    call,                   \* the call site of the latest get_candles
    now,                    \* the clock reading of the latest call, if it read one
    sent,                   \* the requests the latest call issued
    response,               \* the response the latest call received, if any
    result                  \* how the latest call ended

config == <<api_key, api_url, SUPPORTED_BROKERS, SUPPORTED_INSTRUMENTS,
            SUPPORTED_PERIODS>>

vars == <<environ, phase, init_args, init_result, config, net_calls, n_calls,
          call, now, sent, response, result>>

\* ---------------------------------------------------------------- outcomes

NoResult == [kind |-> "none", exc |-> "", msg |-> <<>>, table |-> None]
Raise(exc, msg) == [kind |-> "raise", exc |-> exc, msg |-> msg, table |-> None]
Return(t) == [kind |-> "return", exc |-> "", msg |-> <<>>, table |-> Some(t)]

\* ------------------------------------------------------------- constructor

\* The key resolution with `is not None` written for truthiness.
ResolveKey_NotNone(key_arg, env) == IF key_arg # None THEN key_arg ELSE env

\* self.api_key = api_key or os.getenv("MARKETDATA_API_KEY")
ResolveKey(key_arg, env) == PyOr(key_arg, env)

\* MarketDataClient.__init__
MarketDataClient(key_arg, url_arg) ==
    /\ phase = "new"
    /\ init_args' = Some([api_key |-> key_arg, api_url |-> url_arg])
    /\ api_key' = ResolveKey(key_arg, environ)
    /\ IF ~Truthy(api_key')
       THEN /\ init_result' = Raise("ValueError",
                <<"API key must be provided either directly or via the environment variable 'MARKETDATA_API_KEY'.">>)
            /\ phase' = "failed"
            /\ api_url' = None
       ELSE /\ init_result' = [NoResult EXCEPT !.kind = "return"]
            /\ phase' = "ready"
            /\ api_url' = Some(url_arg)
    /\ UNCHANGED <<environ, SUPPORTED_BROKERS, SUPPORTED_INSTRUMENTS,
                   SUPPORTED_PERIODS, net_calls, n_calls, call, now, sent,
                   response, result>>

Init ==
    /\ environ \in EnvValues
    /\ phase = "new"
    /\ init_args = None
    /\ init_result = NoResult
    /\ api_key = None
    /\ api_url = None
    /\ SUPPORTED_BROKERS = ClassBrokers
    /\ SUPPORTED_INSTRUMENTS = ClassInstruments
    /\ SUPPORTED_PERIODS = ClassPeriods
    /\ net_calls = 0
    /\ n_calls = 0
    /\ call = None
    /\ now = None
    /\ sent = <<>>
    /\ response = None
    /\ result = NoResult

\* --------------------------------------------------------------- DataFrame

\* The member names of a JSON object, in document order.
Keys(obj) == [i \in 1..Len(obj) |-> obj[i][1]]

\* The value of member k of a JSON object.
Member(obj, k) == obj[CHOOSE i \in 1..Len(obj) : obj[i][1] = k][2]

\* l followed by the elements of m that l lacks, in m's order.
RECURSIVE AppendNew(_, _)
AppendNew(l, m) ==
    IF Len(m) = 0 THEN l
    ELSE AppendNew(IF InList(m[1], l) THEN l ELSE Append(l, m[1]), Tail(m))

\* The column labels of DataFrame(records): every member name, in the order
\* of first appearance.
RECURSIVE ColumnsOf(_)
ColumnsOf(records) ==
    IF Len(records) = 0 THEN <<>>
    ELSE AppendNew(Keys(records[1]), ColumnsOf(Tail(records)))

\* pd.DataFrame(records) for a list of JSON objects: one row per object under
\* a RangeIndex.
DataFrame(records) ==
    LET cols == ColumnsOf(records)
    IN  [columns |-> cols,
         index   |-> [i \in 1..Len(records) |-> i - 1],
         rows    |-> [i \in 1..Len(records) |->
                        [c \in {cols[j] : j \in 1..Len(cols)} |->
                            Member(records[i], c)]]]

HasColumn(df, c) == InList(c, df.columns)

\* The labels of cols other than c, in order.
Without(cols, c) == SelectSeq(cols, LAMBDA x : x # c)

\* df[c] = pd.to_datetime(df[c], unit="s")
AssignDatetime(df, c) ==
    [df EXCEPT !.rows = [i \in 1..Len(df.rows) |->
                            [df.rows[i] EXCEPT ![c] = to_datetime(df.rows[i][c])]]]

\* df.set_index(c, inplace=True)
set_index(df, c) ==
    LET cols == Without(df.columns, c)
    IN  [columns |-> cols,
         index   |-> [i \in 1..Len(df.rows) |-> df.rows[i][c]],
         rows    |-> [i \in 1..Len(df.rows) |->
                        [k \in {cols[j] : j \in 1..Len(cols)} |-> df.rows[i][k]]]]

\* The columns= mapping of the rename call.
RenameMap ==
    [open |-> "Open", high |-> "High", low |-> "Low", close |-> "Close",
     volume |-> "Volume"]

Renamed(c) == IF c \in DOMAIN RenameMap THEN RenameMap[c] ELSE c

\* The old label of the column that rename gives the label c.
Unrenamed(df, c) == CHOOSE k \in DOMAIN df.rows[1] : Renamed(k) = c

\* df.rename(columns=RenameMap, inplace=True)
rename(df) ==
    LET cols == [j \in 1..Len(df.columns) |-> Renamed(df.columns[j])]
    IN  [columns |-> cols,
         index   |-> df.index,
         rows    |-> [i \in 1..Len(df.rows) |->
                        [c \in {cols[j] : j \in 1..Len(cols)} |->
                            df.rows[i][Unrenamed(df, c)]]]]

\* The column list of the final selection.
OutputColumns == <<"Open", "High", "Low", "Close", "Volume">>

\* df[cols], defined when df has every column of cols.
Select(df, cols) ==
    [columns |-> cols,
     index   |-> df.index,
     rows    |-> [i \in 1..Len(df.rows) |->
                    [c \in {cols[j] : j \in 1..Len(cols)} |-> df.rows[i][c]]]]

\* The first label of cols that df lacks.
FirstMissing(df, cols) ==
    cols[CHOOSE j \in 1..Len(cols) :
            /\ ~HasColumn(df, cols[j])
            /\ \A k \in 1..(j - 1) : HasColumn(df, cols[k])]

\* The success branch of get_candles: response.json() into the result table.
Transform(candles) ==
    LET df0 == DataFrame(candles)
    IN  IF ~HasColumn(df0, "openTime") THEN Raise("KeyError", <<"'openTime'">>)
        ELSE
        LET df1 == AssignDatetime(df0, "openTime")
            df2 == set_index(df1, "openTime")
            df3 == rename(df2)
        IN  IF \E j \in 1..Len(OutputColumns) : ~HasColumn(df3, OutputColumns[j])
            THEN Raise("KeyError", <<"'", FirstMissing(df3, OutputColumns), "'">>)
            ELSE Return(Select(df3, OutputColumns))

\* -------------------------------------------------------------- get_candles

\* The client object as get_candles reads it.
Self ==
    [api_key |-> api_key, api_url |-> api_url,
     SUPPORTED_BROKERS |-> SUPPORTED_BROKERS,
     SUPPORTED_INSTRUMENTS |-> SUPPORTED_INSTRUMENTS,
     SUPPORTED_PERIODS |-> SUPPORTED_PERIODS]

\* Binding a call site to the signature
\*   get_candles(self, instrument, broker, from_date, period, limit, to_date=None)
\* limit has no default value; to_date defaults to None.
Bind(cs) ==
    IF ~cs.limit.given
    THEN [result |-> Raise("TypeError",
                       <<"get_candles() missing 1 required positional argument: '",
                         "limit", "'">>),
          args |-> [instrument |-> cs.instrument, broker |-> cs.broker,
                    from_date |-> cs.from_date, period |-> cs.period,
                    limit |-> None, to_date |-> None]]
    ELSE [result |-> NoResult,
          args |-> [instrument |-> cs.instrument, broker |-> cs.broker,
                    from_date |-> cs.from_date, period |-> cs.period,
                    limit |-> cs.limit.v,
                    to_date |-> IF cs.to_date.given THEN cs.to_date.v ELSE None]]

\* Each check yields the error it raises, or NoResult when it passes.
CheckBroker_Skipped(self, a) == NoResult

CheckBroker(self, a) ==
    IF ~InList(a.broker, self.SUPPORTED_BROKERS)
    THEN Raise("ValueError",
               <<"Broker '", a.broker, "' is not supported. Supported brokers: ">>
               \o ListRepr(self.SUPPORTED_BROKERS))
    ELSE NoResult

CheckInstrument(self, a) ==
    IF ~InList(a.instrument, self.SUPPORTED_INSTRUMENTS)
    THEN Raise("ValueError",
               <<"Instrument '", a.instrument,
                 "' is not supported. Supported instruments: ">>
               \o ListRepr(self.SUPPORTED_INSTRUMENTS))
    ELSE NoResult

CheckPeriod(self, a) ==
    IF ~InList(a.period, self.SUPPORTED_PERIODS)
    THEN Raise("ValueError",
               <<"Period '", a.period, "' is not supported. Supported periods: ">>
               \o ListRepr(self.SUPPORTED_PERIODS))
    ELSE NoResult

\* The limit check with `<` written for `<=`.
CheckLimit_ZeroAllowed(a) ==
    IF a.limit = None \/ Val(a.limit) < 0
    THEN Raise("ValueError", <<"Limit must be a positive integer.">>)
    ELSE NoResult

CheckLimit(a) ==
    IF a.limit = None \/ Val(a.limit) <= 0
    THEN Raise("ValueError", <<"Limit must be a positive integer.">>)
    ELSE NoResult

CheckFromDate(a) ==
    IF a.from_date = None
    THEN Raise("ValueError", <<"From date must be provided.">>)
    ELSE NoResult

\* The checks with the limit check moved to the front.
Validate_LimitFirst(self, a) ==
    IF CheckLimit(a).kind = "raise" THEN CheckLimit(a)
    ELSE IF CheckBroker(self, a).kind = "raise" THEN CheckBroker(self, a)
    ELSE IF CheckInstrument(self, a).kind = "raise" THEN CheckInstrument(self, a)
    ELSE IF CheckPeriod(self, a).kind = "raise" THEN CheckPeriod(self, a)
    ELSE CheckFromDate(a)

\* The argument checks of get_candles, in source order; the first one that
\* fails raises.
Validate(self, a) ==
    IF CheckBroker(self, a).kind = "raise" THEN CheckBroker(self, a)
    ELSE IF CheckInstrument(self, a).kind = "raise" THEN CheckInstrument(self, a)
    ELSE IF CheckPeriod(self, a).kind = "raise" THEN CheckPeriod(self, a)
    ELSE IF CheckLimit(a).kind = "raise" THEN CheckLimit(a)
    ELSE CheckFromDate(a)

\* pd.Timestamp.now(tz="UTC").isoformat() tabulated over the clock readings.
NowText == [clock \in Clocks |-> isoformat(TimestampNow(clock))]

\* The params dictionary with the caller's to_date always overwritten.
Params_AlwaysNow(a, clock) ==
    [instrument |-> a.instrument, broker |-> a.broker,
     from |-> Val(a.from_date), to |-> NowText[clock],
     period |-> a.period, limit |-> Val(a.limit)]

\* The params dictionary; to_date defaults to the current UTC time.
Params(a, clock) ==
    LET to_date == IF a.to_date = None
                   THEN NowText[clock]
                   ELSE Val(a.to_date)
    IN  [instrument |-> a.instrument, broker |-> a.broker,
         from |-> Val(a.from_date), to |-> to_date,
         period |-> a.period, limit |-> Val(a.limit)]

\* headers = {"X-API-Key": self.api_key}
Headers(self) == [h \in {"X-API-Key"} |-> Val(self.api_key)]

\* The arguments of requests.get(self.api_url, headers=headers, params=params).
Request(self, a, clock) ==
    [url |-> Val(self.api_url), headers |-> Headers(self),
     params |-> Params(a, clock)]

\* The response handling with every 2xx status taken as success.
HandleResponse_Any2xx(resp) ==
    IF resp.status_code >= 200 /\ resp.status_code < 300
    THEN Transform(resp.json)
    ELSE Raise("Exception",
               <<"Error: ", ToString(resp.status_code), " - ", resp.text>>)

\* if response.status_code == 200: ... else: raise Exception(...)
HandleResponse(resp) ==
    IF resp.status_code = HTTP_OK
    THEN Transform(resp.json)
    ELSE Raise("Exception",
               <<"Error: ", ToString(resp.status_code), " - ", resp.text>>)

\* HandleResponse tabulated over the answers the server may give.
Handled == [resp \in Responses |-> HandleResponse(resp)]

\* Whether the call gets past the signature and the argument checks.
PassesValidation(self, cs) ==
    /\ Bind(cs).result.kind # "raise"
    /\ Validate(self, Bind(cs).args).kind # "raise"

\* A call that ends before requests.get: nothing sent, read or received.
Failed(self, err) ==
    [self |-> self, sent |-> <<>>, now |-> None, response |-> None,
     result |-> err]

\* get_candles with the request repeated once after a non-200 answer.
Run_Retry(self, cs, clock, resp) ==
    LET b   == Bind(cs)
        err == Validate(self, b.args)
        req == Request(self, b.args, clock)
    IN  IF b.result.kind = "raise" THEN Failed(self, b.result)
        ELSE IF err.kind = "raise" THEN Failed(self, err)
        ELSE [self |-> self,
              sent |-> IF resp.status_code = HTTP_OK THEN <<req>> ELSE <<req, req>>,
              now |-> IF b.args.to_date = None THEN Some(clock) ELSE None,
              response |-> Some(resp),
              result |-> Handled[resp]]

\* get_candles keeping the URL it last requested in self.api_url.
Run_KeepsUrl(self, cs, clock, resp) ==
    LET b   == Bind(cs)
        err == Validate(self, b.args)
    IN  IF b.result.kind = "raise" THEN Failed(self, b.result)
        ELSE IF err.kind = "raise" THEN Failed(self, err)
        ELSE [self |-> [self EXCEPT !.api_url =
                            Some(Val(self.api_url) \o "?instrument="
                                 \o b.args.instrument)],
              sent |-> <<Request(self, b.args, clock)>>,
              now |-> IF b.args.to_date = None THEN Some(clock) ELSE None,
              response |-> Some(resp),
              result |-> Handled[resp]]

\* The body of get_candles for one call: the client object afterwards, the
\* requests issued, the clock reading taken, the response received and how
\* the call ended.
Run(self, cs, clock, resp) ==
    LET b   == Bind(cs)
        err == Validate(self, b.args)
    IN  IF b.result.kind = "raise" THEN Failed(self, b.result)
        ELSE IF err.kind = "raise" THEN Failed(self, err)
        ELSE [self |-> self,
              sent |-> <<Request(self, b.args, clock)>>,
              now |-> IF b.args.to_date = None THEN Some(clock) ELSE None,
              response |-> Some(resp),
              result |-> Handled[resp]]

\* What the surroundings contribute to a call: a clock reading when to_date
\* is defaulted and a server response when a request goes out.
Surroundings(self, cs) ==
    IF PassesValidation(self, cs)
    THEN [clock : IF Bind(cs).args.to_date = None THEN Clocks ELSE {IdleClock},
          resp : Responses]
    ELSE {[clock |-> IdleClock, resp |-> IdleResponse]}

\* MarketDataClient.get_candles
get_candles(cs) ==
    /\ phase = "ready"
    /\ n_calls < MaxCalls
    /\ \E e \in Surroundings(Self, cs) :
        \E r \in {Run(Self, cs, e.clock, e.resp)} :
            /\ api_key' = r.self.api_key
            /\ api_url' = r.self.api_url
            /\ SUPPORTED_BROKERS' = r.self.SUPPORTED_BROKERS
            /\ SUPPORTED_INSTRUMENTS' = r.self.SUPPORTED_INSTRUMENTS
            /\ SUPPORTED_PERIODS' = r.self.SUPPORTED_PERIODS
            /\ net_calls' = net_calls + Len(r.sent)
            /\ n_calls' = n_calls + 1
            /\ call' = Some(cs)
            /\ now' = r.now
            /\ sent' = r.sent
            /\ response' = r.response
            /\ result' = r.result
    /\ UNCHANGED <<environ, phase, init_args, init_result>>

Next ==
    \/ \E k \in KeyArgs, u \in UrlArgs : MarketDataClient(k, u)
    \/ \E cs \in CallSites : get_candles(cs)

Spec == Init /\ [][Next]_vars

\* ------------------------------------------------------------ properties

\* The latest call site and what the claims say about its arguments.
NonEmpty(o) == o # None /\ Val(o) # ""

BrokerOk(cs) == InList(cs.broker, SUPPORTED_BROKERS)
InstrumentOk(cs) == InList(cs.instrument, SUPPORTED_INSTRUMENTS)
PeriodOk(cs) == InList(cs.period, SUPPORTED_PERIODS)
LimitOk(cs) == cs.limit.v # None /\ Val(cs.limit.v) > 0
FromOk(cs) == cs.from_date # None

\* A call that supplies every required argument, so that the body runs.
Complete(cs) == cs.limit.given

AllOk(cs) ==
    /\ Complete(cs) /\ BrokerOk(cs) /\ InstrumentOk(cs) /\ PeriodOk(cs)
    /\ LimitOk(cs) /\ FromOk(cs)

RaisedValueError == result.kind = "raise" /\ result.exc = "ValueError"

\* C1: a call whose broker, instrument or period is outside its allow-list
\* fails with a ValueError and issues no HTTP request; on a first call the
\* network call counter is still zero.
C1_RejectedBeforeNetwork ==
    (/\ call # None
     /\ Complete(Val(call))
     /\ ~(BrokerOk(Val(call)) /\ InstrumentOk(Val(call)) /\ PeriodOk(Val(call))))
    => /\ RaisedValueError
       /\ sent = <<>>
       /\ response = None
       /\ (n_calls = 1 => net_calls = 0)

C1_Witness ==
    /\ call # None
    /\ Complete(Val(call))
    /\ BrokerOk(Val(call)) /\ InstrumentOk(Val(call)) /\ ~PeriodOk(Val(call))
    /\ RaisedValueError
    /\ net_calls = 0

\* C2: every step that is a get_candles call raises the request count by
\* exactly one when the call's arguments pass validation and by nothing
\* otherwise, whatever the response status, and the call ends by returning
\* or raising.
C2_OneRequestPerValidatedCall ==
    [][n_calls' = n_calls + 1 =>
        /\ net_calls' = net_calls + (IF AllOk(Val(call')) THEN 1 ELSE 0)
        /\ Len(sent') = (IF AllOk(Val(call')) THEN 1 ELSE 0)
        /\ result'.kind \in {"return", "raise"}]_vars

C2_Witness ==
    /\ n_calls = 2
    /\ net_calls = 2
    /\ response # None
    /\ Val(response).status_code # HTTP_OK
    /\ Len(sent) = 1

\* C3: a response whose status is not 200 makes the call raise an Exception,
\* with no table, whose message holds the status code and the body text;
\* 403 with body "forbidden" gives a message holding "403" and "forbidden".
C3_Non200Raises ==
    (response # None /\ Val(response).status_code # HTTP_OK)
    => /\ result.kind = "raise"
       /\ result.exc = "Exception"
       /\ result.table = None
       /\ Contains(result.msg, ToString(Val(response).status_code))
       /\ Contains(result.msg, Val(response).text)
       /\ (Val(response).status_code = 403 /\ Val(response).text = "forbidden"
           => Contains(result.msg, "403") /\ Contains(result.msg, "forbidden"))

C3_Witness ==
    /\ response # None
    /\ Val(response).status_code = 403
    /\ Val(response).text = "forbidden"
    /\ result.kind = "raise"
    /\ Contains(result.msg, "403")

\* C4: the constructor takes the explicit key when it is non-empty and the
\* environment variable otherwise; it fails with a ValueError exactly when
\* neither is non-empty; with no explicit key and the variable set it
\* succeeds with api_key equal to the variable.
C4_KeyResolution ==
    phase # "new" =>
        LET key_arg == Val(init_args).api_key
        IN  /\ phase = "failed" <=> (~NonEmpty(key_arg) /\ ~NonEmpty(environ))
            /\ phase = "failed" =>
                init_result.kind = "raise" /\ init_result.exc = "ValueError"
            /\ phase = "ready" =>
                api_key = (IF NonEmpty(key_arg) THEN key_arg ELSE environ)
            /\ (key_arg = None /\ NonEmpty(environ)) =>
                phase = "ready" /\ api_key = environ

C4_Witness ==
    /\ phase = "ready"
    /\ Val(init_args).api_key = None
    /\ NonEmpty(environ)
    /\ api_key = environ

\* C5: with the other arguments valid, a limit of None, 0 or a negative
\* number fails with a ValueError and sends nothing, and a positive limit is
\* the 'limit' query parameter of the request sent.
C5_LimitPositive ==
    (/\ call # None
     /\ Complete(Val(call))
     /\ BrokerOk(Val(call)) /\ InstrumentOk(Val(call)) /\ PeriodOk(Val(call))
     /\ FromOk(Val(call)))
    => IF LimitOk(Val(call))
       THEN Len(sent) = 1 /\ sent[1].params.limit = Val(Val(call).limit.v)
       ELSE RaisedValueError /\ sent = <<>> /\ response = None

C5_Witness ==
    /\ call # None
    /\ BrokerOk(Val(call)) /\ InstrumentOk(Val(call)) /\ PeriodOk(Val(call))
    /\ FromOk(Val(call))
    /\ Val(call).limit = Given(Some(0))
    /\ RaisedValueError
    /\ sent = <<>>

\* Row i of table t holds the values of JSON candle object obj, under the
\* timestamp of its openTime read as seconds since the epoch.
RowMatches(t, i, obj) ==
    /\ t.index[i] = Timestamp(Member(obj, "openTime"), 0)
    /\ t.rows[i]["Open"] = Member(obj, "open")
    /\ t.rows[i]["High"] = Member(obj, "high")
    /\ t.rows[i]["Low"] = Member(obj, "low")
    /\ t.rows[i]["Close"] = Member(obj, "close")
    /\ t.rows[i]["Volume"] = Member(obj, "volume")

EpochSecond1700000000 ==
    [year |-> 2023, month |-> 11, day |-> 14, hour |-> 22, minute |-> 13,
     second |-> 20, nanosecond |-> 0]

TableMatches(t, body) ==
    /\ t.columns = <<"Open", "High", "Low", "Close", "Volume">>
    /\ Len(t.rows) = Len(body)
    /\ Len(t.index) = Len(body)
    /\ \A i \in 1..Len(body) :
        /\ RowMatches(t, i, body[i])
        /\ Member(body[i], "openTime") = 1700000000
            => t.index[i] = EpochSecond1700000000

\* C6: a 200 response carrying a JSON array of candle objects, of any
\* length and with the members in any order, makes the call return a table
\* with one row per candle in the server's order, indexed by the timestamp
\* of openTime in seconds, with the columns Open, High, Low, Close, Volume
\* holding the values of the lower-case members.
C6_TableForEveryArray ==
    (response # None /\ Val(response).status_code = HTTP_OK)
    => /\ result.kind = "return"
       /\ TableMatches(Val(result.table), Val(response).json)

\* The same for the arrays that hold at least one candle.
C6_TableForNonEmptyArray ==
    (/\ response # None
     /\ Val(response).status_code = HTTP_OK
     /\ Len(Val(response).json) > 0)
    => /\ result.kind = "return"
       /\ TableMatches(Val(result.table), Val(response).json)

\* The check a call fails first, in the order broker, instrument, period,
\* limit, start date.
FirstFailing(cs) ==
    IF ~BrokerOk(cs) THEN "broker"
    ELSE IF ~InstrumentOk(cs) THEN "instrument"
    ELSE IF ~PeriodOk(cs) THEN "period"
    ELSE IF ~LimitOk(cs) THEN "limit"
    ELSE IF ~FromOk(cs) THEN "from_date"
    ELSE "none"

\* The message m opens with `lead`, holds the offending value and holds every
\* element of the allowed list.
NamesValueAndAllowed(m, lead, value, allowed) ==
    /\ Len(m) > 0
    /\ m[1] = lead
    /\ Contains(m, value)
    /\ \A i \in 1..Len(allowed) : Contains(m, allowed[i])

\* The error of an allow-list check that fails first.
AllowListError(cs) ==
    /\ FirstFailing(cs) = "broker" =>
        NamesValueAndAllowed(result.msg, "Broker '", cs.broker,
                             SUPPORTED_BROKERS)
    /\ FirstFailing(cs) = "instrument" =>
        NamesValueAndAllowed(result.msg, "Instrument '", cs.instrument,
                             SUPPORTED_INSTRUMENTS)
    /\ FirstFailing(cs) = "period" =>
        NamesValueAndAllowed(result.msg, "Period '", cs.period,
                             SUPPORTED_PERIODS)

\* How Python prints an optional integer.
LimitText(o) == IF o = None THEN "None" ELSE ToString(Val(o))

\* C7 as stated: the error raised is that of the first failing check in
\* the order broker, instrument, period, limit, start date, and it
\* identifies the offending value and the allowed set.
C7_FirstErrorNamesValue ==
    (call # None /\ Complete(Val(call)) /\ FirstFailing(Val(call)) # "none")
    => /\ RaisedValueError
       /\ AllowListError(Val(call))
       /\ FirstFailing(Val(call)) = "limit" =>
            /\ result.msg[1] = "Limit must be a positive integer."
            /\ Contains(result.msg, LimitText(Val(call).limit.v))
       /\ FirstFailing(Val(call)) = "from_date" =>
            /\ result.msg[1] = "From date must be provided."
            /\ Contains(result.msg, "None")

\* C7 amended: the error raised is that of the first failing check in the
\* order broker, instrument, period, limit, start date; the broker,
\* instrument and period errors hold the offending value and the allowed
\* list, the limit and start-date errors are fixed messages.
C7_FirstErrorInOrder ==
    (call # None /\ Complete(Val(call)) /\ FirstFailing(Val(call)) # "none")
    => /\ RaisedValueError
       /\ AllowListError(Val(call))
       /\ FirstFailing(Val(call)) = "limit" =>
            result.msg = <<"Limit must be a positive integer.">>
       /\ FirstFailing(Val(call)) = "from_date" =>
            result.msg = <<"From date must be provided.">>

C7_Witness ==
    /\ call # None
    /\ Complete(Val(call))
    /\ ~BrokerOk(Val(call)) /\ ~PeriodOk(Val(call)) /\ ~LimitOk(Val(call))
    /\ RaisedValueError
    /\ result.msg[1] = "Broker '"

\* C8: once the client is constructed no step changes api_key, api_url or
\* the allow-lists, and a call that repeats the arguments and the response
\* of the call before it ends the same way.
C8_ConfigurationFrozen ==
    [][phase = "ready" =>
        /\ config' = config
        /\ (/\ n_calls >= 1
            /\ n_calls' = n_calls + 1
            /\ call' = call
            /\ response' = response) => result' = result]_vars

C8_Witness ==
    /\ n_calls >= 2
    /\ result.kind = "return"
    /\ SUPPORTED_BROKERS = ClassBrokers
    /\ api_url = Some(Val(init_args).api_url)

\* C9: the request of a validated call goes to api_url with the header
\* X-API-Key set to api_key and exactly the parameters instrument, broker,
\* from, to, period, limit, each the caller's argument; 'to' is the caller's
\* to_date when given and the current UTC time when it is left out.
C9_RequestContents ==
    (call # None /\ AllOk(Val(call)))
    => /\ Len(sent) = 1
       /\ sent[1].url = Val(api_url)
       /\ DOMAIN sent[1].headers = {"X-API-Key"}
       /\ sent[1].headers["X-API-Key"] = Val(api_key)
       /\ DOMAIN sent[1].params =
            {"instrument", "broker", "from", "to", "period", "limit"}
       /\ sent[1].params.instrument = Val(call).instrument
       /\ sent[1].params.broker = Val(call).broker
       /\ sent[1].params.from = Val(Val(call).from_date)
       /\ sent[1].params.period = Val(call).period
       /\ sent[1].params.limit = Val(Val(call).limit.v)
       /\ IF Val(call).to_date.given /\ Val(call).to_date.v # None
          THEN sent[1].params.to = Val(Val(call).to_date.v) /\ now = None
          ELSE /\ now # None
               /\ sent[1].params.to = isoformat(TimestampNow(Val(now)))

C9_Witness ==
    /\ call # None
    /\ AllOk(Val(call))
    /\ Val(call).to_date.given
    /\ Len(sent) = 1
    /\ sent[1].params.to = "2024-10-10T00:00:00Z"
    /\ sent[1].url # DefaultApiUrl

\* C10: a call that gives a valid instrument, broker, start date and period
\* and no limit passes validation and sends a request whose 'limit'
\* parameter is 10000.
C10_DefaultLimit ==
    (/\ call # None
     /\ ~Val(call).limit.given
     /\ BrokerOk(Val(call)) /\ InstrumentOk(Val(call)) /\ PeriodOk(Val(call))
     /\ FromOk(Val(call)))
    => /\ Len(sent) = 1
       /\ sent[1].params.limit = DocumentedDefaultLimit

====
